---- MODULE Spec2Model ----
(***************************************************************************)
(* journal-ai: the title sanitizer (providers/mod.rs), the configuration   *)
(* resolver (config.rs), the two backend drivers (providers/ollama.rs,     *)
(* providers/openai.rs), the journaling collaborator (journal.rs) and the  *)
(* orchestrator (main.rs).                                                 *)
(*                                                                         *)
(* Four specifications share the module:                                  *)
(*   SpecSan   sanitize_title applied once and twice to a bounded title    *)
(*   SpecLoad  Config::load over a bounded file system and environment     *)
(*   SpecSetup Config::init_interactive, run twice on the same answers     *)
(*             but for the key typed                                       *)
(*   Spec      one invocation of main (no subcommand)                      *)
(*                                                                         *)
(* A string that the code inspects character by character (a title) is a   *)
(* sequence of one-character strings; Option<T> is a sequence of length    *)
(* at most one (<<>> is None, <<x>> is Some(x)).                           *)
(***************************************************************************)
EXTENDS Integers, Sequences, FiniteSets, TLC

VARIABLES
    \* SpecSan
    raw,        \* the title given to sanitize_title
    safe,       \* the value after `passes` applications of sanitize_title
    passes,     \* how many times sanitize_title has been applied
    \* SpecLoad
    config_path,    \* Config::load's argument with the file it names
    local_file,     \* ./.journal-ai.toml
    global_file,    \* ~/.config/journal-ai/config.toml
    home,           \* dirs::home_dir() is Some
    env_key,        \* std::env::var("OPENAI_API_KEY")
    loaded,         \* what Config::load returned
    \* SpecSetup
    setup_choice,   \* the provider line typed (trimmed)
    setup_key,      \* the key line typed in each run (trimmed)
    setup_env,      \* home directory known, config directory writable
    setup_file,     \* the config file each run left on disk
    setup_ret,      \* what Config::init_interactive returned in each run
    \* Spec
    cli,        \* the parsed command line
    installed,  \* the file-journal binary can be spawned
    pc,         \* position in main
    config,     \* main's `config`
    content,    \* main's `content`
    available,  \* what provider.is_available() returned
    backend,    \* what the backend does with the generation request
    events,     \* network requests and spawned processes, in order
    warnings,   \* warnings printed on stderr
    response,   \* main's `response` (Option<LlmResponse>)
    rendered,   \* what the preview printed
    outcome,    \* "running", "ok", or the error main returned
    errmsg      \* the payload text quoted in the error message

sanVars == <<raw, safe, passes>>
loadVars == <<config_path, local_file, global_file, home, env_key, loaded>>
setupVars == <<setup_choice, setup_key, setup_env, setup_file, setup_ret>>
mainVars == <<cli, installed, pc, config, content, available, backend, events,
              warnings, response, rendered, outcome, errmsg>>
vars == <<sanVars, loadVars, setupVars, mainVars>>

----------------------------------------------------------------------------
(* Bounds *)

MaxLen == 6      \* longest raw title given to sanitize_title in SpecSan
MaxTags == 4     \* most tags a backend payload carries

----------------------------------------------------------------------------
(* Strings *)

None == <<>>
Some(x) == <<x>>

\* the characters raw titles are built from: an upper-case letter, two
\* lower-case letters, a dot, a hyphen, a space and a tab
Alphabet == {"M", "m", "d", ".", "-", " ", "\t"}

\* every string of at most n characters of the alphabet
StringsUpTo(n) == UNION {[1..k -> Alphabet] : k \in 0..n}

Str(s) == [i \in 1..Len(s) |-> s[i]]

\* str::contains
Contains(s, p) ==
    \E i \in 1..(Len(s) - Len(p) + 1) : SubSeq(s, i, i + Len(p) - 1) = p

\* str::ends_with
EndsWith(s, p) ==
    Len(s) >= Len(p) /\ SubSeq(s, Len(s) - Len(p) + 1, Len(s)) = p

MdExt == <<".", "m", "d">>

----------------------------------------------------------------------------
(* providers/mod.rs: sanitize_title *)

UnsafeChars == {" ", "/", "\\", ":", "?", "*", "\"", "'", "<", ">", "|"}

ReplaceUnsafe_KeepsSpace(s) ==
    [i \in 1..Len(s) |-> IF s[i] \in (UnsafeChars \ {" "}) THEN "-" ELSE s[i]]

\* the chain of eleven str::replace(c, "-")
ReplaceUnsafe(s) ==
    [i \in 1..Len(s) |-> IF s[i] \in UnsafeChars THEN "-" ELSE s[i]]

LowerChar(c) ==
    CASE c = "M" -> "m"
      [] c = "D" -> "d"
      [] OTHER -> c

\* str::to_lowercase
ToLowercase(s) == [i \in 1..Len(s) |-> LowerChar(s[i])]

\* one pass of safe.replace("--", "-"): non-overlapping matches, left to right
RECURSIVE ReplaceDoubleHyphen(_)
ReplaceDoubleHyphen(s) ==
    IF Len(s) < 2 THEN s
    ELSE IF s[1] = "-" /\ s[2] = "-"
         THEN <<"-">> \o ReplaceDoubleHyphen(SubSeq(s, 3, Len(s)))
         ELSE <<s[1]>> \o ReplaceDoubleHyphen(Tail(s))

\* while safe.contains("--") { safe = safe.replace("--", "-") }
RECURSIVE CollapseHyphens(_)
CollapseHyphens(s) ==
    IF Contains(s, <<"-", "-">>) THEN CollapseHyphens(ReplaceDoubleHyphen(s)) ELSE s

\* str::trim_end_matches(c): every trailing c is removed
RECURSIVE TrimEndMatches(_, _)
TrimEndMatches(s, c) ==
    IF Len(s) > 0 /\ s[Len(s)] = c
    THEN TrimEndMatches(SubSeq(s, 1, Len(s) - 1), c)
    ELSE s

\* char::is_whitespace, on the characters of the model
Whitespace == {" ", "\t"}

RECURSIVE TrimStart(_)
TrimStart(s) ==
    IF Len(s) > 0 /\ s[1] \in Whitespace THEN TrimStart(Tail(s)) ELSE s

RECURSIVE TrimEnd(_)
TrimEnd(s) ==
    IF Len(s) > 0 /\ s[Len(s)] \in Whitespace
    THEN TrimEnd(SubSeq(s, 1, Len(s) - 1))
    ELSE s

\* str::trim
Trim(s) == TrimEnd(TrimStart(s))

EnsureMd_AlwaysAppends(s) == s \o MdExt

\* if !safe.ends_with(".md") { safe.push_str(".md") }
EnsureMd(s) == IF EndsWith(s, MdExt) THEN s ELSE s \o MdExt

sanitize_title(title) ==
    LET replaced  == ToLowercase(ReplaceUnsafe(title))
        collapsed == CollapseHyphens(replaced)
        trimmed   == Trim(TrimEndMatches(collapsed, "-"))
    IN  Str(EnsureMd(trimmed))

----------------------------------------------------------------------------
(* config.rs *)

\* a config file: whether it exists, whether its text is TOML of the Config
\* schema, and the fields its text sets (each may be absent from the text)
Providers == {"ollama", "openai"}
FileTexts ==
    [valid : {TRUE}, provider : {None} \cup {Some(p) : p \in Providers},
     ollama_model : {None, Some("mistral")},
     api_key : {None, Some("file-key")}]
InvalidText ==
    [valid |-> FALSE, provider |-> None, ollama_model |-> None, api_key |-> None]
NoFile == [exists |-> FALSE, text |-> InvalidText]
Files ==
    {NoFile} \cup [exists : {TRUE}, text : FileTexts \cup {InvalidText}]

default_provider == "ollama"
default_ollama_url == "http://localhost:11434"
default_ollama_model == "llama3.2"
default_openai_url == "https://api.openai.com/v1"
default_openai_model == "gpt-4o-mini"

OllamaConfig_default ==
    [base_url |-> default_ollama_url, model |-> default_ollama_model]

OpenAiConfig_default ==
    [base_url |-> default_openai_url, model |-> default_openai_model,
     api_key |-> None]

Config_default ==
    [provider |-> default_provider, ollama |-> OllamaConfig_default,
     openai |-> OpenAiConfig_default]

unwrap_or(opt, dflt) == IF opt = None THEN dflt ELSE opt[1]

\* toml::from_str::<Config>: an absent field takes its serde default, and
\* api_key (skip_serializing only) is read when the text has it
from_str(text) ==
    [provider |-> unwrap_or(text.provider, default_provider),
     ollama |-> [base_url |-> default_ollama_url,
                 model |-> unwrap_or(text.ollama_model, default_ollama_model)],
     openai |-> [base_url |-> default_openai_url,
                 model |-> default_openai_model,
                 api_key |-> text.api_key]]

load_api_keys_EnvWins(cfg, env) ==
    IF env # None
    THEN [cfg EXCEPT !.openai.api_key = env]
    ELSE cfg

\* Config::load_api_keys: the environment fills in only a missing key
load_api_keys(cfg, env) ==
    IF cfg.openai.api_key = None /\ env # None
    THEN [cfg EXCEPT !.openai.api_key = env]
    ELSE cfg

Ok(cfg) == [ok |-> TRUE, err |-> "", config |-> cfg]
Err(e) == [ok |-> FALSE, err |-> e, config |-> Config_default]

\* read_to_string, toml::from_str, load_api_keys, return
load_from(file, env) ==
    IF file.text.valid
    THEN Ok(load_api_keys(from_str(file.text), env))
    ELSE Err("ConfigParseError")

\* Config::default_config_path
default_config_path(h) ==
    IF h THEN [ok |-> TRUE, err |-> ""] ELSE [ok |-> FALSE, err |-> "HomeResolutionError"]

\* Config::load: the vec! of standard locations is built, and the home
\* directory resolved, before the project-local file is looked at
load(path, lfile, gfile, h, env) ==
    IF path # None /\ path[1].exists
    THEN load_from(path[1], env)
    ELSE IF ~default_config_path(h).ok THEN Err(default_config_path(h).err)
    ELSE IF lfile.exists THEN load_from(lfile, env)
    ELSE IF gfile.exists THEN load_from(gfile, env)
    ELSE Ok(load_api_keys(Config_default, env))

\* the file systems and environments Config::load runs in; without a home
\* directory there is no user-global file
ConfigPaths == {None} \cup {Some(f) : f \in Files}
EnvKeys == {None, Some("env-key")}
NotLoaded == [ok |-> FALSE, err |-> "not called", config |-> Config_default]

\* Config::init_interactive: the lines typed, trimmed
SetupChoices == {"", "1", "2"}
TypedKeys == {"", "sk-first", "sk-second"}
Runs == {1, 2}
SetupEnvs == [home : BOOLEAN, writable : BOOLEAN]

\* "Don't serialize api_key to file for security"
config_to_save(cfg) == [cfg EXCEPT !.openai.api_key = None]

\* toml::to_string_pretty::<Config>: every field but api_key, which is
\* #[serde(skip_serializing)]
to_string_pretty(cfg) ==
    [valid |-> TRUE, provider |-> Some(cfg.provider),
     ollama_model |-> Some(cfg.ollama.model), api_key |-> None]

saved_toml_KeepsKey(cfg) ==
    [valid |-> TRUE, provider |-> Some(cfg.provider),
     ollama_model |-> Some(cfg.ollama.model), api_key |-> cfg.openai.api_key]

\* the text init_interactive writes for the configuration it built
saved_toml(cfg) == to_string_pretty(config_to_save(cfg))

SetupOk(cfg, text) == [ok |-> TRUE, err |-> "", config |-> cfg, written |-> Some(text)]
SetupErr(e) == [ok |-> FALSE, err |-> e, config |-> Config_default, written |-> None]
NotSetUp == SetupErr("not called")

\* Config::init_interactive
init_interactive(choice, key, env) ==
    LET provider == IF choice = "2" THEN "openai" ELSE "ollama"
        cfg == [Config_default EXCEPT
                  !.provider = provider,
                  !.openai.api_key = IF provider = "openai" THEN Some(key) ELSE None]
    IN  IF ~default_config_path(env.home).ok
        THEN SetupErr(default_config_path(env.home).err)
        ELSE IF ~env.writable THEN SetupErr("IoError")
        ELSE SetupOk(cfg, saved_toml(cfg))

----------------------------------------------------------------------------
(* providers: the backend's answer and the drivers' reading of it *)

Titles == {<<>>, <<"M", " ", "d">>, <<"m", ".", "m", "d">>}
Contents == {"", "Cleaned text"}
TagLists == {[i \in 1..n |-> "tag"] : n \in 0..MaxTags}

\* the text the model produced: JSON or not, and the fields the JSON has
Garbage == [json |-> FALSE, title |-> None, content |-> None, tags |-> None]
Payloads ==
    {Garbage} \cup
    [json : {TRUE},
     title : {None} \cup {Some(t) : t \in Titles},
     content : {None} \cup {Some(c) : c \in Contents},
     tags : {None} \cup {Some(l) : l \in TagLists}]

\* what comes back for the generation request
BackendAnswers(provider) ==
    [kind : {"transport error", "error status", "unreadable body"} \cup
            (IF provider = "openai" THEN {"no choices"} ELSE {}),
     payload : {Garbage}]
    \cup [kind : {"payload"}, payload : Payloads]

\* what the backend does with it: one of the answers, or it accepts the
\* connection and never responds
BackendBehaviours(provider) ==
    BackendAnswers(provider) \cup {[kind |-> "no answer", payload |-> Garbage]}

LlmResponse(t, c, l) == [title |-> t, content |-> c, tags |-> l]
NoResponse == LlmResponse(<<>>, "", <<>>)

GenOk(r) == [ok |-> TRUE, err |-> "", response |-> r, quoted |-> None]
GenErr(e, q) == [ok |-> FALSE, err |-> e, response |-> NoResponse, quoted |-> q]

from_str_llm_TagsRequired(p) ==
    IF p.json /\ p.title # None /\ p.content # None /\ p.tags # None
    THEN Some(LlmResponse(p.title[1], p.content[1], p.tags[1]))
    ELSE None

\* serde_json::from_str::<LlmResponse>: title and content are required,
\* tags is #[serde(default)]
from_str_llm(p) ==
    IF p.json /\ p.title # None /\ p.content # None
    THEN Some(LlmResponse(p.title[1], p.content[1], unwrap_or(p.tags, <<>>)))
    ELSE None

\* both drivers: parse the embedded JSON (the error quotes the text) and
\* sanitize the title; nothing else of the result is looked at
parse_and_sanitize(p) ==
    LET parsed == from_str_llm(p)
    IN  IF parsed = None
        THEN GenErr("MalformedResponse", Some(p))
        ELSE GenOk(LlmResponse(sanitize_title(parsed[1].title),
                               parsed[1].content, parsed[1].tags))

\* OllamaProvider::generate, from the answer on
ollama_generate(answer) ==
    CASE answer.kind = "transport error" -> GenErr("BackendUnreachable", None)
      [] answer.kind = "error status" -> GenErr("BackendRejected", None)
      [] answer.kind = "unreadable body" -> GenErr("MalformedResponse", None)
      [] OTHER -> parse_and_sanitize(answer.payload)

\* OpenAiProvider::generate, from the answer on
openai_generate(answer) ==
    CASE answer.kind = "transport error" -> GenErr("BackendUnreachable", None)
      [] answer.kind = "error status" -> GenErr("BackendRejected", None)
      [] answer.kind = "unreadable body" -> GenErr("MalformedResponse", None)
      [] answer.kind = "no choices" -> GenErr("EmptyCompletion", None)
      [] OTHER -> parse_and_sanitize(answer.payload)

OpenAiProvider_new_Deferred(cfg) == Ok(Config_default)

\* OpenAiProvider::new
OpenAiProvider_new(cfg) ==
    IF cfg.api_key = None THEN Err("MissingCredential") ELSE Ok(Config_default)

openai_is_available_Inverted(cfg) == cfg.api_key = None

\* OpenAiProvider::is_available
openai_is_available(cfg) == cfg.api_key # None

----------------------------------------------------------------------------
(* journal.rs *)

\* create_entry and create_entry_dry_run: "Ensure title ends with .md"
entry_title(title) == IF EndsWith(title, MdExt) THEN title ELSE title \o MdExt

\* one observable step: a network request or a spawned process, with the
\* title, content and tags it carries
Event(k, t, c, l) == [kind |-> k, title |-> t, content |-> c, tags |-> l]

SpawnHelp == Event("file-journal --help", <<>>, "", <<>>)

\* create_entry(&response.title, &response.content): the command line is
\* `file-journal new <title> <content>`
create_entry(r) == Event("file-journal new", entry_title(r.title), r.content, <<>>)

----------------------------------------------------------------------------
(* main.rs: one invocation without a subcommand *)

CliProviders == {None, Some("ollama"), Some("openai"), Some("bogus")}
CliModels == {None, Some("custom-model")}
CliContents == {None, Some("my note")}
Stdins == {"", "piped note"}

Clis ==
    [provider : CliProviders, model : CliModels, content : CliContents,
     dry_run : BOOLEAN, preview : BOOLEAN]

\* "Override provider if specified", "Override model if specified"
apply_overrides(cfg, c) ==
    LET c1 == IF c.provider # None THEN [cfg EXCEPT !.provider = c.provider[1]] ELSE cfg
    IN  IF c.model = None THEN c1
        ELSE CASE c1.provider = "ollama" -> [c1 EXCEPT !.ollama.model = c.model[1]]
               [] c1.provider = "openai" -> [c1 EXCEPT !.openai.model = c.model[1]]
               [] OTHER -> c1

model_override_ignored(cfg, c) ==
    c.model # None /\ (IF c.provider # None THEN c.provider[1] ELSE cfg.provider) \notin Providers

Fail(e) == pc' = "done" /\ outcome' = e

\* let mut config = Config::load(cli.config)?; and the two overrides
Main_LoadConfig ==
    /\ pc = "load"
    /\ \E path \in ConfigPaths, lfile \in Files, h \in BOOLEAN, env \in EnvKeys :
         \E gfile \in (IF h THEN Files ELSE {NoFile}) :
           LET r == load(path, lfile, gfile, h, env)
           IN  IF r.ok
               THEN /\ config' = apply_overrides(r.config, cli)
                    /\ warnings' = IF model_override_ignored(r.config, cli)
                                   THEN warnings \cup {"model override ignored"}
                                   ELSE warnings
                    /\ pc' = "content"
                    /\ outcome' = outcome
               ELSE /\ Fail(r.err)
                    /\ UNCHANGED <<config, warnings>>
    /\ UNCHANGED <<backend, cli, installed, content, available, events, response,
                   rendered, errmsg>>
    /\ UNCHANGED <<sanVars, loadVars, setupVars>>

\* "Get input content": the argument, or standard input when it is not blank
Main_GetContent ==
    /\ pc = "content"
    /\ IF cli.content # None
       THEN content' = cli.content[1] /\ pc' = "check" /\ outcome' = outcome
       ELSE \E stdin \in Stdins :
              IF stdin = ""
              THEN Fail("NoContent") /\ content' = content
              ELSE content' = stdin /\ pc' = "check" /\ outcome' = outcome
    /\ UNCHANGED <<backend, cli, installed, config, available, events, warnings,
                   response, rendered, errmsg>>
    /\ UNCHANGED <<sanVars, loadVars, setupVars>>

\* journal::check_file_journal(): spawns `file-journal --help`
Main_CheckFileJournal ==
    /\ pc = "check"
    /\ events' = Append(events, SpawnHelp)
    /\ IF installed
       THEN pc' = "provider" /\ outcome' = outcome
       ELSE Fail("ExternalToolUnavailable")
    /\ UNCHANGED <<backend, cli, installed, config, content, available, warnings,
                   response, rendered, errmsg>>
    /\ UNCHANGED <<sanVars, loadVars, setupVars>>

Main_CreateOllama_HardGate ==
    /\ pc = "provider"
    /\ config.provider = "ollama"
    /\ events' = Append(events, Event("GET /api/tags", <<>>, "", <<>>))
    /\ \E up \in BOOLEAN :
         /\ available' = Some(up)
         /\ IF up THEN pc' = "generate" /\ outcome' = outcome
            ELSE Fail("ProviderUnavailable")
    /\ UNCHANGED <<backend, cli, installed, config, content, response, rendered,
                   warnings, errmsg>>
    /\ UNCHANGED <<sanVars, loadVars, setupVars>>

\* "ollama" => OllamaProvider::new, is_available (GET /api/tags, 2 s timeout)
Main_CreateOllama ==
    /\ pc = "provider"
    /\ config.provider = "ollama"
    /\ events' = Append(events, Event("GET /api/tags", <<>>, "", <<>>))
    /\ \E up \in BOOLEAN :
         /\ available' = Some(up)
         /\ warnings' = IF up THEN warnings
                        ELSE warnings \cup {"Ollama does not appear to be available"}
    /\ pc' = "generate"
    /\ UNCHANGED <<backend, cli, installed, config, content, response, rendered,
                   outcome, errmsg>>
    /\ UNCHANGED <<sanVars, loadVars, setupVars>>

\* "openai" => OpenAiProvider::new(..)?, is_available
Main_CreateOpenAi ==
    /\ pc = "provider"
    /\ config.provider = "openai"
    /\ IF ~OpenAiProvider_new(config.openai).ok
       THEN Fail(OpenAiProvider_new(config.openai).err) /\ available' = available
       ELSE /\ available' = Some(openai_is_available(config.openai))
            /\ IF ~openai_is_available(config.openai)
               THEN Fail("ProviderUnavailable")
               ELSE pc' = "generate" /\ outcome' = outcome
    /\ UNCHANGED <<backend, cli, installed, config, content, events, warnings,
                   response, rendered, errmsg>>
    /\ UNCHANGED <<sanVars, loadVars, setupVars>>

\* _ => "Unknown provider"
Main_UnknownProvider ==
    /\ pc = "provider"
    /\ config.provider \notin Providers
    /\ Fail("UnknownProvider")
    /\ UNCHANGED <<backend, cli, installed, config, content, available, events,
                   warnings, response, rendered, errmsg>>
    /\ UNCHANGED <<sanVars, loadVars, setupVars>>

GenerateRequest(provider) ==
    IF provider = "ollama" THEN "POST /api/generate" ELSE "POST /chat/completions"

\* provider.generate(&content, None): the request is built and sent
Generate_Send ==
    /\ pc = "generate"
    /\ IF config.provider = "openai" /\ config.openai.api_key = None
       THEN Fail("MissingCredential") /\ events' = events /\ backend' = backend
       ELSE /\ events' = Append(events,
                           Event(GenerateRequest(config.provider), <<>>, content, <<>>))
            /\ \E b \in BackendBehaviours(config.provider) : backend' = Some(b)
            /\ pc' = "awaiting"
            /\ outcome' = outcome
    /\ UNCHANGED <<cli, installed, config, content, available, warnings,
                   response, rendered, errmsg>>
    /\ UNCHANGED <<sanVars, loadVars, setupVars>>

Generate_Receive_RetriesOnce ==
    /\ pc = "awaiting"
    /\ backend[1].kind # "no answer"
    /\ LET answer == backend[1] IN
         LET r == IF config.provider = "ollama"
                  THEN ollama_generate(answer)
                  ELSE openai_generate(answer)
         IN  IF r.ok
             THEN /\ response' = Some(r.response)
                  /\ pc' = "finish"
                  /\ UNCHANGED <<outcome, errmsg>>
             ELSE /\ IF Len(events) < 4
                     THEN pc' = "generate" /\ outcome' = outcome
                     ELSE Fail(r.err)
                  /\ errmsg' = r.quoted
                  /\ response' = response
    /\ UNCHANGED <<backend, cli, installed, config, content, available, events,
                   warnings, rendered>>
    /\ UNCHANGED <<sanVars, loadVars, setupVars>>

\* provider.generate(&content, None): the answer arrives and is read; the
\* client is reqwest::Client::new(), which sets no timeout, so nothing else
\* ends the wait
Generate_Receive ==
    /\ pc = "awaiting"
    /\ backend[1].kind # "no answer"
    /\ LET answer == backend[1] IN
         LET r == IF config.provider = "ollama"
                  THEN ollama_generate(answer)
                  ELSE openai_generate(answer)
         IN  IF r.ok
             THEN /\ response' = Some(r.response)
                  /\ pc' = "finish"
                  /\ UNCHANGED <<outcome, errmsg>>
             ELSE /\ Fail(r.err)
                  /\ errmsg' = r.quoted
                  /\ response' = response
    /\ UNCHANGED <<backend, cli, installed, config, content, available, events,
                   warnings, rendered>>
    /\ UNCHANGED <<sanVars, loadVars, setupVars>>

\* "Preview mode": prints the result and, with --dry-run, the command line
Main_Preview ==
    /\ pc = "finish"
    /\ cli.preview \/ cli.dry_run
    /\ rendered' = <<response[1]>> \o
                   (IF cli.dry_run
                    THEN <<LlmResponse(entry_title(response[1].title),
                                       response[1].content, <<>>)>>
                    ELSE <<>>)
    /\ pc' = "done"
    /\ outcome' = "ok"
    /\ UNCHANGED <<backend, cli, installed, config, content, available, events,
                   warnings, response, errmsg>>
    /\ UNCHANGED <<sanVars, loadVars, setupVars>>

\* "Create the actual entry": journal::create_entry spawns `file-journal new`
Main_CreateEntry ==
    /\ pc = "finish"
    /\ ~(cli.preview \/ cli.dry_run)
    /\ events' = Append(events, create_entry(response[1]))
    /\ pc' = "done"
    /\ IF ~installed
       THEN outcome' = "ExternalToolUnavailable"
       ELSE \E success \in BOOLEAN :
              outcome' = IF success THEN "ok" ELSE "ExternalToolFailed"
    /\ UNCHANGED <<backend, cli, installed, config, content, available, warnings,
                   response, rendered, errmsg>>
    /\ UNCHANGED <<sanVars, loadVars, setupVars>>

----------------------------------------------------------------------------
(* The four specifications *)

SanIdle == raw = <<>> /\ safe = <<>> /\ passes = 0

SetupIdle ==
    /\ setup_choice = "" /\ setup_key = [r \in Runs |-> ""]
    /\ setup_env = [home |-> TRUE, writable |-> TRUE]
    /\ setup_file = [r \in Runs |-> None]
    /\ setup_ret = [r \in Runs |-> NotSetUp]

LoadIdle ==
    /\ config_path = None /\ local_file = NoFile /\ global_file = NoFile
    /\ home = TRUE /\ env_key = None /\ loaded = NotLoaded

MainStart ==
    /\ pc = "load" /\ config = Config_default /\ content = ""
    /\ available = None /\ backend = None
    /\ events = <<>> /\ warnings = {} /\ response = None
    /\ rendered = <<>> /\ outcome = "running" /\ errmsg = None

MainIdle ==
    /\ cli = [provider |-> None, model |-> None, content |-> None,
              dry_run |-> FALSE, preview |-> FALSE]
    /\ installed = TRUE
    /\ MainStart

Init ==
    /\ cli \in Clis
    /\ installed \in BOOLEAN
    /\ MainStart
    /\ SanIdle /\ LoadIdle /\ SetupIdle

Next ==
    \/ Main_LoadConfig
    \/ Main_GetContent
    \/ Main_CheckFileJournal
    \/ Main_CreateOllama
    \/ Main_CreateOpenAi
    \/ Main_UnknownProvider
    \/ Generate_Send
    \/ Generate_Receive
    \/ Main_Preview
    \/ Main_CreateEntry

Spec == Init /\ [][Next]_vars

\* sanitize_title on a raw title, and again on its own output
SanInit ==
    /\ raw \in StringsUpTo(MaxLen)
    /\ safe = <<>> /\ passes = 0
    /\ LoadIdle /\ SetupIdle /\ MainIdle

Sanitize ==
    /\ passes = 0
    /\ safe' = <<sanitize_title(raw)>>
    /\ passes' = 1
    /\ UNCHANGED <<raw, loadVars, setupVars, mainVars>>

Resanitize ==
    /\ passes = 1
    /\ safe' = Append(safe, sanitize_title(safe[1]))
    /\ passes' = 2
    /\ UNCHANGED <<raw, loadVars, setupVars, mainVars>>

SanNext == Sanitize \/ Resanitize

SpecSan == SanInit /\ [][SanNext]_vars

\* Config::load in every file system and environment of the bounds
LoadInit ==
    /\ config_path \in ConfigPaths
    /\ local_file \in Files
    /\ home \in BOOLEAN
    /\ global_file \in (IF home THEN Files ELSE {NoFile})
    /\ env_key \in EnvKeys
    /\ loaded = NotLoaded
    /\ SanIdle /\ SetupIdle /\ MainIdle

Load ==
    /\ loaded = NotLoaded
    /\ loaded' = load(config_path, local_file, global_file, home, env_key)
    /\ UNCHANGED <<config_path, local_file, global_file, home, env_key>>
    /\ UNCHANGED <<sanVars, setupVars, mainVars>>

LoadNext == Load

SpecLoad == LoadInit /\ [][LoadNext]_vars

\* Config::init_interactive twice, each run on a disk without a config
\* file, with the same provider line and environment and any two key lines
SetupInit ==
    /\ setup_choice \in SetupChoices
    /\ setup_key \in [Runs -> TypedKeys]
    /\ setup_env \in SetupEnvs
    /\ setup_file = [r \in Runs |-> None]
    /\ setup_ret = [r \in Runs |-> NotSetUp]
    /\ SanIdle /\ LoadIdle /\ MainIdle

Setup(r) ==
    /\ setup_ret[r] = NotSetUp
    /\ LET res == init_interactive(setup_choice, setup_key[r], setup_env)
       IN  /\ setup_ret' = [setup_ret EXCEPT ![r] = res]
           /\ setup_file' = [setup_file EXCEPT ![r] = res.written]
    /\ UNCHANGED <<setup_choice, setup_key, setup_env>>
    /\ UNCHANGED <<sanVars, loadVars, mainVars>>

SetupNext == \E r \in Runs : Setup(r)

SpecSetup == SetupInit /\ [][SetupNext]_vars

----------------------------------------------------------------------------
(* Properties *)

TagLimit == 3

NoUnsafeChar(s) == \A i \in 1..Len(s) : s[i] \notin UnsafeChars
DoubledExt == MdExt \o MdExt

\* positions of the events of the given kinds
At(kinds) == {i \in 1..Len(events) : events[i].kind \in kinds}
GenerateKinds == {"POST /api/generate", "POST /chat/completions"}
NetworkKinds == GenerateKinds \cup {"GET /api/tags"}
SpawnKinds == {"file-journal --help", "file-journal new"}

\* the one source Config::load is to read: the first that exists
SourceRead ==
    IF config_path # None /\ config_path[1].exists THEN config_path[1]
    ELSE IF local_file.exists THEN local_file
    ELSE IF global_file.exists THEN global_file
    ELSE NoFile

\* C1: sanitizing a sanitized title gives the same string back.
C1_Idempotent == passes = 2 => safe[2] = safe[1]

C1_Witness ==
    /\ passes = 2
    /\ Len(raw) = MaxLen
    /\ safe[1] # raw
    /\ EndsWith(ToLowercase(raw), MdExt)

\* C2 as stated: every output ends with ".md" exactly once (never ".md.md")
\* and holds no space and no path-special character.
C2_ExactlyOnce ==
    passes >= 1 =>
        /\ EndsWith(safe[1], MdExt)
        /\ ~EndsWith(safe[1], DoubledExt)
        /\ NoUnsafeChar(safe[1])

\* C2 amended: every output ends with ".md" and holds no space and no
\* path-special character, and sanitize_title never adds a second extension:
\* the output ends with ".md.md" only when the raw title, lower-cased,
\* already contains ".md.md" (which is then kept).
C2_NeverAddsSecond ==
    passes >= 1 =>
        /\ EndsWith(safe[1], MdExt)
        /\ NoUnsafeChar(safe[1])
        /\ EndsWith(safe[1], DoubledExt) => Contains(ToLowercase(raw), DoubledExt)

C2_Witness ==
    /\ passes >= 1
    /\ Contains(ToLowercase(raw), MdExt)
    /\ \E i \in 1..Len(raw) : raw[i] \in UnsafeChars
    /\ EndsWith(safe[1], MdExt)
    /\ ~EndsWith(safe[1], DoubledExt)

\* C3: a result that generate returned has a non-empty title, a non-empty
\* content and at most 3 tags (a payload of another shape is rejected).
C3_ShapeValidated ==
    response # None =>
        /\ response[1].title # <<>>
        /\ response[1].content # ""
        /\ Len(response[1].tags) <= TagLimit

\* C4: with the cloud backend selected and no credential, the invocation ends
\* in MissingCredential at construction, having made no network request and
\* no creation request; and whenever it ends in a configuration or credential
\* error, no network request has been made.
C4_FailFast ==
    /\ (config.provider = "openai" /\ config.openai.api_key = None)
          => /\ pc \notin {"generate", "awaiting", "finish"}
             /\ (pc = "done" /\ events # <<>> /\ installed)
                   => outcome = "MissingCredential"
    /\ outcome = "MissingCredential"
          => /\ config.provider = "openai" /\ config.openai.api_key = None
             /\ At(NetworkKinds) = {}
             /\ At({"file-journal new"}) = {}
    /\ outcome \in {"ConfigParseError", "HomeResolutionError",
                    "MissingCredential", "UnknownProvider"}
          => At(NetworkKinds) = {}

C4_Witness ==
    /\ pc = "done"
    /\ outcome = "MissingCredential"
    /\ events = <<SpawnHelp>>

\* C5: a generation request is sent only after is_available() was asked;
\* with the local backend a false probe leaves a warning and the request is
\* sent all the same, its answer deciding the outcome; with the cloud
\* backend a request is sent only after a true probe.
C5_ProbeThenGenerate ==
    /\ At(GenerateKinds) # {} => available # None
    /\ \A g \in At({"POST /api/generate"}) :
          \E q \in At({"GET /api/tags"}) : q < g
    /\ (config.provider = "ollama" /\ available = Some(FALSE))
          => /\ "Ollama does not appear to be available" \in warnings
             /\ pc \in {"generate", "awaiting", "finish", "done"}
             /\ pc # "generate" => At({"POST /api/generate"}) # {}
             /\ outcome # "ProviderUnavailable"
    /\ (config.provider = "openai" /\ At(GenerateKinds) # {})
          => available = Some(TRUE)
    /\ (config.provider = "openai" /\ available = Some(FALSE))
          => pc = "done" /\ outcome = "ProviderUnavailable"

C5_Witness ==
    /\ pc = "done"
    /\ config.provider = "ollama"
    /\ available = Some(FALSE)
    /\ outcome = "ok"
    /\ At({"POST /api/generate"}) # {}

\* C6 as stated: at most one generation request is sent and at most one
\* external process is spawned.
C6_OneProcess ==
    /\ Cardinality(At(GenerateKinds)) <= 1
    /\ Cardinality(At(SpawnKinds)) <= 1

\* C6 amended: at most one generation request is sent, to the selected
\* backend only, and at most two external processes are spawned, one after
\* the other: the `file-journal --help` check (before the request) and at
\* most one `file-journal new` (after it).
C6_OneRequestTwoProcesses ==
    /\ Cardinality(At(GenerateKinds)) <= 1
    /\ \A g \in At(GenerateKinds) :
          events[g].kind = GenerateRequest(config.provider)
    /\ Cardinality(At({"file-journal --help"})) <= 1
    /\ Cardinality(At({"file-journal new"})) <= 1
    /\ \A h \in At({"file-journal --help"}), g \in At(GenerateKinds) : h < g
    /\ \A g \in At(GenerateKinds), n \in At({"file-journal new"}) : g < n
    /\ At({"file-journal new"}) # {} => At(GenerateKinds) # {}

C6_Witness ==
    /\ pc = "done"
    /\ outcome = "ExternalToolFailed"
    /\ Cardinality(At(GenerateKinds)) = 1
    /\ Cardinality(At(SpawnKinds)) = 2

\* C7: in preview mode and in dry-run mode no external process is ever
\* spawned, so that a missing collaborator never ends the invocation.
C7_PreviewSpawnsNothing ==
    (cli.preview \/ cli.dry_run) =>
        /\ At(SpawnKinds) = {}
        /\ outcome # "ExternalToolUnavailable"

\* C8: in normal mode a creation request is sent only after generate has
\* returned a result, at most once, and it carries the title, the content
\* and the tags of that result.
C8_CreationCarriesResult ==
    /\ Cardinality(At({"file-journal new"})) <= 1
    /\ \A n \in At({"file-journal new"}) :
          /\ ~(cli.preview \/ cli.dry_run)
          /\ response # None
          /\ events[n].title = response[1].title
          /\ events[n].content = response[1].content
          /\ events[n].tags = response[1].tags
    /\ (pc = "done" /\ response = None) => At({"file-journal new"}) = {}

\* C9: what Config::load returns is what the first existing source alone
\* determines (explicit path, project-local file, user-global file), the
\* defaults when there is none; only with no source at all may an
\* undeterminable home directory make it fail.
C9_FirstSourceAlone ==
    loaded # NotLoaded =>
        loaded = IF SourceRead.exists THEN load_from(SourceRead, env_key)
                 ELSE IF ~home THEN Err("HomeResolutionError")
                 ELSE Ok(load_api_keys(Config_default, env_key))

C12_HomeErrorOnlyWithoutSource ==
    /\ loaded.err = "HomeResolutionError" => (~home /\ ~SourceRead.exists)
    /\ (loaded # NotLoaded /\ SourceRead.exists /\ SourceRead.text.valid)
          => loaded.ok

\* C14: the output of sanitize_title is all lower-case, has no two
\* consecutive hyphens, and its stem (the output without the final ".md")
\* ends neither with a hyphen nor with whitespace.
C14_CleanStem ==
    passes >= 1 =>
        LET out  == safe[1]
            stem == SubSeq(out, 1, Len(out) - Len(MdExt))
        IN  /\ out = ToLowercase(out)
            /\ ~Contains(out, <<"-", "-">>)
            /\ EndsWith(out, MdExt)
            /\ Len(stem) > 0 => stem[Len(stem)] \notin ({"-"} \cup Whitespace)

\* C11: the file init_interactive writes holds no credential, whatever the
\* provider chosen and the key typed, so two runs that differ only in the
\* key write the same file; the configuration returned for the cloud
\* provider carries the key typed.
C11_KeyNeverPersisted ==
    /\ \A r \in Runs :
          /\ setup_file[r] # None => setup_file[r][1].api_key = None
          /\ setup_ret[r].ok => setup_file[r] # None
          /\ (setup_ret[r].ok /\ setup_choice = "2")
                => setup_ret[r].config.openai.api_key = Some(setup_key[r])
    /\ (\A r \in Runs : setup_ret[r] # NotSetUp) => setup_file[1] = setup_file[2]

C11_Witness ==
    /\ setup_choice = "2"
    /\ setup_key[1] = "sk-first" /\ setup_key[2] = "sk-second"
    /\ setup_ret[1].ok /\ setup_ret[2].ok
    /\ setup_file[1] # None
    /\ setup_file[1] = setup_file[2]
    /\ setup_ret[1].config.openai.api_key # setup_ret[2].config.openai.api_key

\* C13: once the backend has answered with success and an embedded payload,
\* a payload that is not JSON or lacks title or content ends the invocation
\* in MalformedResponse, the message quoting the payload, with no result;
\* any other payload gives a result, whose tags are empty when the payload
\* has no tags field.
C13_MalformedQuotesPayload ==
    (pc \in {"finish", "done"} /\ backend # None /\ backend[1].kind = "payload") =>
        LET p == backend[1].payload
        IN  IF ~p.json \/ p.title = None \/ p.content = None
            THEN /\ outcome = "MalformedResponse"
                 /\ errmsg = Some(p)
                 /\ response = None
            ELSE /\ response # None
                 /\ outcome # "MalformedResponse"
                 /\ response[1].content = p.content[1]
                 /\ response[1].tags = IF p.tags = None THEN <<>> ELSE p.tags[1]

C13_Witness ==
    /\ pc = "done"
    /\ backend # None /\ backend[1].kind = "payload"
    /\ backend[1].payload.json
    /\ backend[1].payload.title = None
    /\ backend[1].payload.content # None
    /\ outcome = "MalformedResponse"
    /\ errmsg = Some(backend[1].payload)

\* C15: an invocation never waits for ever: until it has ended with a result
\* or an error, a next step is always possible, even when the backend
\* accepts the connection and never responds.
C15_NeverStuck == pc = "done" \/ ENABLED Next

\* C16: a cloud driver that was constructed is available: its probe never
\* returns false, the invocation never ends in "provider not available", and
\* a missing credential is reported before any probe.
C16_ConstructedIsAvailable ==
    /\ (config.provider = "openai" /\ available # None)
          => /\ available = Some(TRUE)
             /\ config.openai.api_key # None
    /\ outcome # "ProviderUnavailable"
    /\ outcome = "MissingCredential" => available = None

C16_Witness ==
    /\ config.provider = "openai"
    /\ available = Some(TRUE)
    /\ pc = "done"
    /\ outcome = "ok"

====
